---------------------------- MODULE Spec2Model ----------------------------
(***************************************************************************)
(* A model of the credential resolver (core/auth.py) and of the client     *)
(* registry (core/context.py, services/client_instances.py) of gcp-mcp.    *)
(***************************************************************************)
EXTENDS Integers, Sequences, FiniteSets, TLC

(***************************************************************************)
(* Bounds of the model.                                                    *)
(***************************************************************************)
MaxCalls == 2
MaxThreads == 2
MaxFails == 1
MaxCloseAll == 2

(***************************************************************************)
(* The process environment and the hosting platform.                       *)
(*   GOOGLE_APPLICATION_CREDENTIALS : the file path variable of auth.py:   *)
(*       "unset", "missing" (set, no such file), "malformed" (the file     *)
(*       exists and is not a service-account definition), "valid".         *)
(*   GCP_SERVICE_ACCOUNT_JSON : the inline blob: "unset", "badsyntax"      *)
(*       (json.loads raises JSONDecodeError), "badsa" (JSON, rejected by   *)
(*       from_service_account_info), "valid" (carries project_id),         *)
(*       "valid_noproj" (carries none).                                    *)
(*   GCP_SERVICE_ACCOUNT_KEY_PATH : the key file variable of context.py:   *)
(*       "unset", "bad" (from_service_account_file raises), "valid",       *)
(*       "valid_noproj".                                                   *)
(*   GCP_PROJECT_ID : "" when unset, else the configured project.          *)
(*   adc : what google.auth.default() yields: NoADC when it raises         *)
(*       DefaultCredentialsError, else the credential and the project.     *)
(*   refreshOK : whether credentials.refresh(Request()) succeeds.          *)
(*   auditOK : whether logger.audit_log(...) returns (TRUE) or raises.     *)
(***************************************************************************)
VARIABLES GOOGLE_APPLICATION_CREDENTIALS, GCP_SERVICE_ACCOUNT_JSON,
          GCP_SERVICE_ACCOUNT_KEY_PATH, GCP_PROJECT_ID, adc, refreshOK, auditOK

(***************************************************************************)
(* The observable outcome of the credential resolver.                      *)
(*   authResult : the outcome of the last get_credentials() call           *)
(*   auditLog   : the audit entries the logger has emitted so far          *)
(*   authCalls  : number of get_credentials() calls made                   *)
(*   valCred    : a credential object handed to validate_credentials       *)
(*   valResult  : the outcome of the last validate_credentials() call      *)
(*   valCalls   : number of validate_credentials() calls made on valCred   *)
(***************************************************************************)
VARIABLES authResult, auditLog, authCalls, valCred, valResult, valCalls

(***************************************************************************)
(* The client registry.                                                    *)
(*   registries   : the GCPClients objects created so far                  *)
(*   _gcp_clients : the module global of client_instances (0 is None)      *)
(*   _project_id, _location : the other two module globals ("" is None)    *)
(*   initResult   : what the last initialize_clients() call of the host    *)
(*                  returned ("none" before the first)                     *)
(*   lifespan     : the position of gcp_lifespan and the context it yields *)
(*   response     : what the last service handler returned to the server   *)
(*   callers      : the threads that issue requests                        *)
(*   regLimit     : how many registries the run may create                 *)
(*   th           : per thread, the position in an accessor and its local  *)
(*                  values                                                 *)
(*   last         : the result of the last completed request               *)
(***************************************************************************)
VARIABLES registries, _gcp_clients, _project_id, _location, callers,
          regLimit, initResult, lifespan, response, th, last

envVars == <<GOOGLE_APPLICATION_CREDENTIALS, GCP_SERVICE_ACCOUNT_JSON,
             GCP_SERVICE_ACCOUNT_KEY_PATH, GCP_PROJECT_ID, adc, refreshOK,
             auditOK>>
authVars == <<authResult, auditLog, authCalls, valCred, valResult, valCalls>>
regVars == <<registries, _gcp_clients, _project_id, _location, callers,
             regLimit, initResult, lifespan, response, th, last>>
vars == <<envVars, authVars, regVars>>

NoCred == [src |-> "none"]
NoADC == [found |-> FALSE]

(***************************************************************************)
(* A credential object.  tok is the state of its access token: valid is    *)
(* tok = "fresh", expired is tok = "expired".  hasValid says whether the   *)
(* object has the attribute valid, hasExpiry whether it has expiry and     *)
(* expired, which validate_credentials probes with hasattr;                *)
(* service-account credentials have them all.  project is the attribute    *)
(* project_id: "absent" when the object has none, "" when it is None.      *)
(***************************************************************************)
ServiceAccountCred(source, proj) ==
    [src |-> source, tok |-> "none", hasValid |-> TRUE, hasExpiry |-> TRUE,
     project |-> proj]

AmbientCreds ==
    [src : {"default"}, tok : {"none", "expired", "fresh"},
     hasValid : BOOLEAN, hasExpiry : BOOLEAN, project : {"absent"}]

ADCOutcomes ==
    {NoADC} \cup [found : {TRUE}, cred : AmbientCreds, project : {"", "p_adc"}]

FileStates == {"unset", "missing", "malformed", "valid"}
JsonStates == {"unset", "badsyntax", "badsa", "valid", "valid_noproj"}

IsValid(c) == c.tok = "fresh"
IsExpired(c) == c.tok = "expired"

(* credentials.refresh(Request()): a fresh token, or an exception *)
Refresh(c) ==
    IF refreshOK THEN [ok |-> TRUE, cred |-> [c EXCEPT !.tok = "fresh"]]
    ELSE [ok |-> FALSE, cred |-> c]

(* a validation that refreshes whatever the state of the credential *)
validate_credentials_always(c) ==
    IF Refresh(c).ok
    THEN [status |-> "ok", cred |-> Refresh(c).cred, refreshes |-> 1]
    ELSE [status |-> "AuthenticationError", cred |-> NoCred, refreshes |-> 1]

(* a validation that never refreshes *)
validate_credentials_norefresh(c) ==
    [status |-> "ok", cred |-> c, refreshes |-> 0]

(***************************************************************************)
(* validate_credentials: the first refresh is outside any try block, so    *)
(* its failure leaves the function as the library's RefreshError; the      *)
(* second is wrapped into AuthenticationError.                             *)
(***************************************************************************)
validate_credentials(c) ==
    LET r1 == IF c.hasValid /\ ~IsValid(c) THEN Refresh(c)
              ELSE [ok |-> TRUE, cred |-> c]
        n1 == IF c.hasValid /\ ~IsValid(c) THEN 1 ELSE 0
    IN  IF ~r1.ok
        THEN [status |-> "RefreshError", cred |-> NoCred, refreshes |-> n1]
        ELSE LET c1 == r1.cred
                 again == c1.hasExpiry /\ IsExpired(c1)
                 r2 == IF again THEN Refresh(c1) ELSE [ok |-> TRUE, cred |-> c1]
                 n2 == IF again THEN n1 + 1 ELSE n1
             IN  IF ~r2.ok
                 THEN [status |-> "AuthenticationError", cred |-> NoCred,
                       refreshes |-> n2]
                 ELSE [status |-> "ok", cred |-> r2.cred, refreshes |-> n2]

Audit(res, meth) ==
    [action |-> "credential_load", resource |-> res, method |-> meth]

(* MCPLogger.audit_log(action, resource, details): the entry it emits is   *)
(* "AUDIT: <action> on <resource>"; details is not part of it              *)
audit_log(call) == [action |-> call.action, resource |-> call.resource]

(* the entries emitted for a sequence of audit_log calls *)
Emitted(calls) == [i \in DOMAIN calls |-> audit_log(calls[i])]

(* an outer handler that lets the exception through as it is *)
WrapAuth_raw(status) == status

(* the outer "except Exception" of get_credentials *)
WrapAuth(status) == IF status = "ok" THEN "ok" ELSE "AuthenticationError"

(***************************************************************************)
(* get_credentials as a function of the environment: the status, the       *)
(* credential returned, the sources whose loader was called, the audit     *)
(* calls made and the value GCP_PROJECT_ID has afterwards.                 *)
(***************************************************************************)
(* an audit_log call that raises: the exception is none of those the      *)
(* inner handlers name, so the outer "except Exception" turns it into      *)
(* AuthenticationError; seen is the set of loaders called before it        *)
AuditRaised(seen) ==
    [status |-> "AuthenticationError", cred |-> NoCred, consulted |-> seen,
     audits |-> <<>>, project |-> GCP_PROJECT_ID, refreshes |-> 0]

(* ambient discovery that hands back nothing instead of raising *)
FromDefault_silent(before, aok) ==
    IF ~aok THEN AuditRaised(before)
    ELSE IF ~adc.found
    THEN [status |-> "ok", cred |-> NoCred,
          consulted |-> before \cup {"default"},
          audits |-> <<Audit("application_default", "default")>>,
          project |-> GCP_PROJECT_ID, refreshes |-> 0]
    ELSE LET v == validate_credentials(adc.cred)
             p == IF adc.project # "" /\ GCP_PROJECT_ID = ""
                  THEN adc.project ELSE GCP_PROJECT_ID
         IN  [status |-> WrapAuth(v.status), cred |-> v.cred,
              consulted |-> before \cup {"default"},
              audits |-> <<Audit("application_default", "default")>>,
              project |-> p, refreshes |-> v.refreshes]

(* ambient discovery that adopts its project over a configured one *)
FromDefault_overwrite(before, aok) ==
    LET au == <<Audit("application_default", "default")>>
        seen == before \cup {"default"}
    IN  IF ~aok THEN AuditRaised(before)
        ELSE IF ~adc.found
        THEN [status |-> "AuthenticationError", cred |-> NoCred,
              consulted |-> seen, audits |-> au,
              project |-> GCP_PROJECT_ID, refreshes |-> 0]
        ELSE LET v == validate_credentials(adc.cred)
                 p == IF adc.project # "" THEN adc.project ELSE GCP_PROJECT_ID
             IN  [status |-> WrapAuth(v.status), cred |-> v.cred,
                  consulted |-> seen, audits |-> au,
                  project |-> p, refreshes |-> v.refreshes]

FromDefault(before, aok) ==
    LET au == <<Audit("application_default", "default")>>
        seen == before \cup {"default"}
    IN  IF ~aok THEN AuditRaised(before)
        ELSE IF ~adc.found
        THEN [status |-> "AuthenticationError", cred |-> NoCred,
              consulted |-> seen, audits |-> au,
              project |-> GCP_PROJECT_ID, refreshes |-> 0]
        ELSE LET v == validate_credentials(adc.cred)
                 p == IF adc.project # "" /\ GCP_PROJECT_ID = ""
                      THEN adc.project ELSE GCP_PROJECT_ID
             IN  [status |-> WrapAuth(v.status), cred |-> v.cred,
                  consulted |-> seen, audits |-> au,
                  project |-> p, refreshes |-> v.refreshes]

(* an inline-blob loader for which a JSON syntax error is fatal too *)
FromJson_failfast(aok) ==
    IF GCP_SERVICE_ACCOUNT_JSON \in {"badsyntax", "badsa"}
    THEN [status |-> "AuthenticationError", cred |-> NoCred,
          consulted |-> {"json"}, audits |-> <<>>,
          project |-> GCP_PROJECT_ID, refreshes |-> 0]
    ELSE IF ~aok THEN AuditRaised({"json"})
    ELSE LET proj == IF GCP_SERVICE_ACCOUNT_JSON = "valid" THEN "p_sa" ELSE ""
             v == validate_credentials(ServiceAccountCred("json", proj))
         IN  [status |-> WrapAuth(v.status), cred |-> v.cred,
              consulted |-> {"json"},
              audits |-> <<Audit("service_account", "environment_json")>>,
              project |-> GCP_PROJECT_ID, refreshes |-> v.refreshes]

(* an inline-blob loader that skips a rejected service-account definition *)
(* as it skips a syntax error                                              *)
FromJson_skipinvalid(aok) ==
    IF GCP_SERVICE_ACCOUNT_JSON \in {"badsyntax", "badsa"}
    THEN FromDefault({"json"}, aok)
    ELSE IF ~aok THEN AuditRaised({"json"})
    ELSE LET proj == IF GCP_SERVICE_ACCOUNT_JSON = "valid" THEN "p_sa" ELSE ""
             v == validate_credentials(ServiceAccountCred("json", proj))
         IN  [status |-> WrapAuth(v.status), cred |-> v.cred,
              consulted |-> {"json"},
              audits |-> <<Audit("service_account", "environment_json")>>,
              project |-> GCP_PROJECT_ID, refreshes |-> v.refreshes]

FromJson(aok) ==
    IF GCP_SERVICE_ACCOUNT_JSON = "badsyntax"
    THEN FromDefault({"json"}, aok)
    ELSE IF GCP_SERVICE_ACCOUNT_JSON = "badsa"
    THEN [status |-> "AuthenticationError", cred |-> NoCred,
          consulted |-> {"json"}, audits |-> <<>>,
          project |-> GCP_PROJECT_ID, refreshes |-> 0]
    ELSE IF ~aok THEN AuditRaised({"json"})
    ELSE LET proj == IF GCP_SERVICE_ACCOUNT_JSON = "valid" THEN "p_sa" ELSE ""
             v == validate_credentials(ServiceAccountCred("json", proj))
         IN  [status |-> WrapAuth(v.status), cred |-> v.cred,
              consulted |-> {"json"},
              audits |-> <<Audit("service_account", "environment_json")>>,
              project |-> GCP_PROJECT_ID, refreshes |-> v.refreshes]

(* a resolver that treats a malformed file as an absent source *)
FromFile_fallthrough(aok) ==
    IF ~aok THEN AuditRaised({})
    ELSE IF GOOGLE_APPLICATION_CREDENTIALS = "malformed"
    THEN IF GCP_SERVICE_ACCOUNT_JSON # "unset" THEN FromJson(aok)
         ELSE FromDefault({}, aok)
    ELSE LET v == validate_credentials(ServiceAccountCred("file", "p_file"))
         IN  [status |-> WrapAuth(v.status), cred |-> v.cred,
              consulted |-> {"file"},
              audits |-> <<Audit("service_account", "file")>>,
              project |-> GCP_PROJECT_ID, refreshes |-> v.refreshes]

FromFile(aok) ==
    LET au == <<Audit("service_account", "file")>>
    IN  IF ~aok THEN AuditRaised({})
        ELSE IF GOOGLE_APPLICATION_CREDENTIALS = "malformed"
        THEN [status |-> "AuthenticationError", cred |-> NoCred,
              consulted |-> {"file"}, audits |-> au,
              project |-> GCP_PROJECT_ID, refreshes |-> 0]
        ELSE LET v == validate_credentials(ServiceAccountCred("file", "p_file"))
             IN  [status |-> WrapAuth(v.status), cred |-> v.cred,
                  consulted |-> {"file"}, audits |-> au,
                  project |-> GCP_PROJECT_ID, refreshes |-> v.refreshes]

(* a resolver that looks at the inline blob before the file *)
get_credentials_jsonfirst(aok) ==
    IF GCP_SERVICE_ACCOUNT_JSON # "unset"
    THEN FromJson(aok)
    ELSE IF GOOGLE_APPLICATION_CREDENTIALS \in {"malformed", "valid"}
    THEN FromFile(aok)
    ELSE FromDefault({}, aok)

get_credentials(aok) ==
    IF GOOGLE_APPLICATION_CREDENTIALS \in {"malformed", "valid"}
    THEN FromFile(aok)
    ELSE IF GCP_SERVICE_ACCOUNT_JSON # "unset"
    THEN FromJson(aok)
    ELSE FromDefault({}, aok)

NoResult ==
    [status |-> "none", cred |-> NoCred, consulted |-> {}, audits |-> <<>>,
     project |-> "", refreshes |-> 0]

NoValidation ==
    [status |-> "none", cred |-> NoCred, refreshes |-> 0, input |-> NoCred]

ResolverIdle ==
    /\ authResult = NoResult
    /\ auditLog = <<>>
    /\ authCalls = 0

AuthIdle ==
    /\ ResolverIdle
    /\ valCred = NoCred
    /\ valResult = NoValidation
    /\ valCalls = 0

(***************************************************************************)
(* Actions of the credential resolver.                                     *)
(***************************************************************************)
GetCredentials ==
    /\ authCalls < MaxCalls
    /\ authResult' = get_credentials(auditOK)
    /\ auditLog' = auditLog \o Emitted(get_credentials(auditOK).audits)
    /\ GCP_PROJECT_ID' = get_credentials(auditOK).project
    /\ authCalls' = authCalls + 1
    /\ UNCHANGED <<GOOGLE_APPLICATION_CREDENTIALS, GCP_SERVICE_ACCOUNT_JSON,
                   GCP_SERVICE_ACCOUNT_KEY_PATH, adc, refreshOK, auditOK>>
    /\ UNCHANGED <<valCred, valResult, valCalls>>
    /\ UNCHANGED regVars

(***************************************************************************)
(* ValidateCredentials: validate_credentials(valCred) called directly.  A  *)
(* refresh that succeeds changes the credential object in place; one that  *)
(* raises leaves it as it was.                                             *)
(***************************************************************************)
ValidateCredentials ==
    /\ valCalls < MaxCalls
    /\ valCred # NoCred
    /\ LET v == validate_credentials(valCred)
       IN  /\ valResult' = [status |-> v.status, cred |-> v.cred,
                            refreshes |-> v.refreshes, input |-> valCred]
           /\ valCred' = IF v.status = "ok" THEN v.cred ELSE valCred
    /\ valCalls' = valCalls + 1
    /\ UNCHANGED <<authResult, auditLog, authCalls, envVars, regVars>>

(***************************************************************************)
(* The client registry: GCPClients of core/context.py.                     *)
(***************************************************************************)
Kinds == {"storage", "artifactregistry"}
Threads == 1 .. MaxThreads
KeyPathStates == {"unset", "bad", "valid", "valid_noproj"}

(* credentials handed to initialize_clients by its caller *)
ExplicitCred == ServiceAccountCred("explicit", "p_explicit")

(* a _get_credentials for which an inline blob that cannot be loaded is    *)
(* fatal                                                                   *)
_get_credentials_failfast(credentials) ==
    IF credentials # NoCred
    THEN [ok |-> TRUE, cred |-> credentials]
    ELSE IF GCP_SERVICE_ACCOUNT_JSON \in {"valid", "valid_noproj"}
    THEN [ok |-> TRUE,
          cred |-> ServiceAccountCred("json",
                     IF GCP_SERVICE_ACCOUNT_JSON = "valid" THEN "p_sa" ELSE "")]
    ELSE IF GCP_SERVICE_ACCOUNT_JSON # "unset"
    THEN [ok |-> FALSE, cred |-> NoCred]
    ELSE IF GCP_SERVICE_ACCOUNT_KEY_PATH \in {"valid", "valid_noproj"}
    THEN [ok |-> TRUE,
          cred |-> ServiceAccountCred("keypath",
                     IF GCP_SERVICE_ACCOUNT_KEY_PATH = "valid" THEN "p_key"
                     ELSE "")]
    ELSE IF adc.found
    THEN [ok |-> TRUE, cred |-> adc.cred]
    ELSE [ok |-> FALSE, cred |-> NoCred]

(* GCPClients._get_credentials: RuntimeError when every source fails *)
_get_credentials(credentials) ==
    IF credentials # NoCred
    THEN [ok |-> TRUE, cred |-> credentials]
    ELSE IF GCP_SERVICE_ACCOUNT_JSON \in {"valid", "valid_noproj"}
    THEN [ok |-> TRUE,
          cred |-> ServiceAccountCred("json",
                     IF GCP_SERVICE_ACCOUNT_JSON = "valid" THEN "p_sa" ELSE "")]
    ELSE IF GCP_SERVICE_ACCOUNT_KEY_PATH \in {"valid", "valid_noproj"}
    THEN [ok |-> TRUE,
          cred |-> ServiceAccountCred("keypath",
                     IF GCP_SERVICE_ACCOUNT_KEY_PATH = "valid" THEN "p_key"
                     ELSE "")]
    ELSE IF adc.found
    THEN [ok |-> TRUE, cred |-> adc.cred]
    ELSE [ok |-> FALSE, cred |-> NoCred]

(* a project lookup that asks the credential before the environment *)
_get_project_id_credfirst(cred) ==
    IF cred.project # "absent"
    THEN [ok |-> TRUE, project |-> cred.project]
    ELSE IF GCP_PROJECT_ID # ""
    THEN [ok |-> TRUE, project |-> GCP_PROJECT_ID]
    ELSE IF adc.found
    THEN [ok |-> TRUE, project |-> adc.project]
    ELSE [ok |-> FALSE, project |-> ""]

(* GCPClients._get_project_id; "" stands for None *)
_get_project_id(cred) ==
    IF GCP_PROJECT_ID # ""
    THEN [ok |-> TRUE, project |-> GCP_PROJECT_ID]
    ELSE IF cred.project # "absent"
    THEN [ok |-> TRUE, project |-> cred.project]
    ELSE IF adc.found
    THEN [ok |-> TRUE, project |-> adc.project]
    ELSE [ok |-> FALSE, project |-> ""]

(* GCPClients._get_location, with no GCP_LOCATION configured *)
_get_location == "us-central1"

(***************************************************************************)
(* GCPClients.__init__.  clients is the _clients dictionary, as the set of *)
(* the clients it holds; storage_client and artifactregistry_client are    *)
(* the fields the accessors cache in (0 is None, i the i-th client of the  *)
(* kind constructed on this registry).  objs holds, per kind, the clients  *)
(* constructed on this registry, each as the number of times it has been   *)
(* closed.  ctorFails, closeAllCalls and returned record what has happened *)
(* on this object: the constructor invocations that raised, the close_all  *)
(* calls, and the clients its accessors have returned.                     *)
(***************************************************************************)
(* a constructor that builds the storage client at once *)
GCPClients_eager(cred, proj) ==
    [credentials |-> cred, project_id |-> proj, location |-> _get_location,
     clients |-> {}, storage_client |-> 1, artifactregistry_client |-> 0,
     objs |-> [k \in Kinds |-> IF k = "storage" THEN <<0>> ELSE <<>>],
     ctorFails |-> [k \in Kinds |-> 0],
     closeAllCalls |-> 0, returned |-> [k \in Kinds |-> {}]]

GCPClients(cred, proj) ==
    [credentials |-> cred, project_id |-> proj, location |-> _get_location,
     clients |-> {}, storage_client |-> 0, artifactregistry_client |-> 0,
     objs |-> [k \in Kinds |-> <<>>], ctorFails |-> [k \in Kinds |-> 0],
     closeAllCalls |-> 0, returned |-> [k \in Kinds |-> {}]]

(* initialize_clients: the registry it would install, if construction      *)
(* succeeds                                                                *)
initialize_clients(credentials) ==
    LET c == _get_credentials(credentials)
        p == IF c.ok THEN _get_project_id(c.cred) ELSE [ok |-> FALSE]
    IN  IF c.ok /\ p.ok
        THEN [ok |-> TRUE, registry |-> GCPClients(c.cred, p.project)]
        ELSE [ok |-> FALSE]

IdleThread == [pc |-> "idle", reg |-> 0, val |-> 0, afterClose |-> FALSE]
NoOutcome == [status |-> "none", kind |-> "none", afterClose |-> FALSE]

(* gcp_lifespan before the server has entered it *)
LifespanDown == [pc |-> "down", clients |-> 0, project_id |-> "",
                 location |-> ""]

NoResponse ==
    [kind |-> "none", form |-> "none", raised |-> FALSE, shape |-> "none",
     cause |-> "none", apiCalled |-> FALSE]

RegistryIdle ==
    /\ registries = <<>>
    /\ _gcp_clients = 0
    /\ _project_id = ""
    /\ _location = ""
    /\ initResult = "none"
    /\ lifespan = LifespanDown
    /\ response = NoResponse
    /\ th = [t \in Threads |-> IdleThread]
    /\ last = NoOutcome

(* constructor invocations for kind k made on a registry *)
CtorCalls(reg, k) == Len(reg.objs[k]) + reg.ctorFails[k]

(* the request of thread t ends: what its caller sees *)
Finish(t, st, k) ==
    /\ last' = [status |-> st, kind |-> k, afterClose |-> th[t].afterClose]
    /\ th' = [th EXCEPT ![t] = IdleThread]

(* an initialize_clients whose failure clears the module globals *)
InitializeClients_reset ==
    /\ Len(registries) < regLimit
    /\ \E c \in {NoCred, ExplicitCred} :
          LET r == initialize_clients(c)
          IN  IF r.ok
              THEN /\ registries' = Append(registries, r.registry)
                   /\ _gcp_clients' = Len(registries) + 1
                   /\ _project_id' = r.registry.project_id
                   /\ _location' = r.registry.location
                   /\ initResult' = "True"
              ELSE /\ UNCHANGED registries
                   /\ _gcp_clients' = 0
                   /\ _project_id' = ""
                   /\ _location' = ""
                   /\ initResult' = "False"
    /\ UNCHANGED <<callers, regLimit, lifespan, response, th, last, envVars,
                   authVars>>

(***************************************************************************)
(* InitializeClients: initialize_clients(credentials) called by the host   *)
(* (the lifespan, or any caller), installing a new registry on success and *)
(* leaving the globals alone on failure.                                   *)
(***************************************************************************)
InitializeClients ==
    /\ Len(registries) < regLimit
    /\ \E c \in {NoCred, ExplicitCred} :
          LET r == initialize_clients(c)
          IN  IF r.ok
              THEN /\ registries' = Append(registries, r.registry)
                   /\ _gcp_clients' = Len(registries) + 1
                   /\ _project_id' = r.registry.project_id
                   /\ _location' = r.registry.location
                   /\ initResult' = "True"
              ELSE /\ UNCHANGED <<registries, _gcp_clients, _project_id,
                                  _location>>
                   /\ initResult' = "False"
    /\ UNCHANGED <<callers, regLimit, lifespan, response, th, last, envVars,
                   authVars>>

(***************************************************************************)
(* get_clients: returns the module global, after trying to initialize it   *)
(* when it is None: the registries and the global afterwards.              *)
(***************************************************************************)
get_clients ==
    LET r == initialize_clients(NoCred)
    IN  IF _gcp_clients = 0 /\ r.ok
        THEN [registries |-> Append(registries, r.registry),
              global |-> Len(registries) + 1,
              project_id |-> r.registry.project_id,
              location |-> r.registry.location]
        ELSE [registries |-> registries, global |-> _gcp_clients,
              project_id |-> _project_id, location |-> _location]

(* a handler reads an accessor of the None that get_clients() returned:    *)
(* AttributeError, which the handler catches                               *)
GetClientsNone(t) ==
    /\ th[t].pc = "idle"
    /\ get_clients.global = 0
    /\ \E k \in Kinds : Finish(t, "AttributeError", k)
    /\ UNCHANGED <<registries, _gcp_clients, _project_id, _location, callers,
                   regLimit, initResult, lifespan, response, envVars,
                   authVars>>

(***************************************************************************)
(* The storage accessor: the field is read as the argument of              *)
(* _init_client, _init_client constructs a client when the value read is   *)
(* None, and the result is assigned to the field and returned.             *)
(***************************************************************************)
StorageCheck(t) ==
    /\ th[t].pc = "idle"
    /\ get_clients.global # 0
    /\ registries' = get_clients.registries
    /\ _gcp_clients' = get_clients.global
    /\ _project_id' = get_clients.project_id
    /\ _location' = get_clients.location
    /\ LET reg == registries'[_gcp_clients']
       IN  th' = [th EXCEPT ![t] = [pc |-> "storage_checked",
                                    reg |-> _gcp_clients',
                                    val |-> reg.storage_client,
                                    afterClose |-> reg.closeAllCalls > 0]]
    /\ UNCHANGED <<callers, regLimit, initResult, lifespan, response, last,
                   envVars, authVars>>

(* an _init_client whose failure drops the clients the registry has cached *)
_init_client_poison(reg, k, current_client, ok) ==
    IF current_client # 0
    THEN [raised |-> FALSE, ret |-> current_client, registry |-> reg]
    ELSE IF ok
    THEN [raised |-> FALSE, ret |-> Len(reg.objs[k]) + 1,
          registry |-> [reg EXCEPT !.objs[k] = Append(@, 0)]]
    ELSE [raised |-> TRUE, ret |-> 0,
          registry |-> [reg EXCEPT !.ctorFails[k] = @ + 1,
                                   !.storage_client = 0,
                                   !.artifactregistry_client = 0]]

(* an _init_client that remembers a failure and raises on every later     *)
(* call without invoking the constructor                                   *)
_init_client_negcache(reg, k, current_client, ok) ==
    IF current_client # 0
    THEN [raised |-> FALSE, ret |-> current_client, registry |-> reg]
    ELSE IF reg.ctorFails[k] > 0
    THEN [raised |-> TRUE, ret |-> 0, registry |-> reg]
    ELSE IF ok
    THEN [raised |-> FALSE, ret |-> Len(reg.objs[k]) + 1,
          registry |-> [reg EXCEPT !.objs[k] = Append(@, 0)]]
    ELSE [raised |-> TRUE, ret |-> 0,
          registry |-> [reg EXCEPT !.ctorFails[k] = @ + 1]]

(* an _init_client that constructs whatever the field holds *)
_init_client_nomemo(reg, k, current_client, ok) ==
    IF ok
    THEN [raised |-> FALSE, ret |-> Len(reg.objs[k]) + 1,
          registry |-> [reg EXCEPT !.objs[k] = Append(@, 0)]]
    ELSE [raised |-> TRUE, ret |-> 0,
          registry |-> [reg EXCEPT !.ctorFails[k] = @ + 1]]

(***************************************************************************)
(* _init_client(client_class, current_client) for kind k on the registry   *)
(* reg, where the constructor succeeds or raises as ok says: the registry  *)
(* afterwards and the value returned (RuntimeError when raised).           *)
(***************************************************************************)
_init_client(reg, k, current_client, ok) ==
    IF current_client # 0
    THEN [raised |-> FALSE, ret |-> current_client, registry |-> reg]
    ELSE IF ok
    THEN [raised |-> FALSE, ret |-> Len(reg.objs[k]) + 1,
          registry |-> [reg EXCEPT !.objs[k] = Append(@, 0)]]
    ELSE [raised |-> TRUE, ret |-> 0,
          registry |-> [reg EXCEPT !.ctorFails[k] = @ + 1]]

StorageInitClient(t) ==
    /\ th[t].pc = "storage_checked"
    /\ \E ok \in BOOLEAN :
          LET r == th[t].reg
              res == _init_client(registries[r], "storage", th[t].val, ok)
          IN  /\ ok \/ registries[r].ctorFails["storage"] < MaxFails
              /\ registries' = [registries EXCEPT ![r] = res.registry]
              /\ IF res.raised
                 THEN Finish(t, "RuntimeError", "storage")
                 ELSE /\ th' = [th EXCEPT ![t].pc = "storage_inited",
                                          ![t].val = res.ret]
                      /\ UNCHANGED last
    /\ UNCHANGED <<_gcp_clients, _project_id, _location, callers, regLimit,
                   initResult, lifespan, response, envVars, authVars>>

StorageStore(t) ==
    /\ th[t].pc = "storage_inited"
    /\ LET r == th[t].reg
       IN  registries' = [registries EXCEPT
                             ![r].storage_client = th[t].val,
                             ![r].returned["storage"] = @ \cup {th[t].val}]
    /\ Finish(t, "ok", "storage")
    /\ UNCHANGED <<_gcp_clients, _project_id, _location, callers, regLimit,
                   initResult, lifespan, response, envVars, authVars>>

(***************************************************************************)
(* The artifactregistry accessor: it tests the field, constructs a client  *)
(* and assigns it when the field is None, and returns the field.           *)
(***************************************************************************)
ArtifactRegistryCheck(t) ==
    /\ th[t].pc = "idle"
    /\ get_clients.global # 0
    /\ registries' = get_clients.registries
    /\ _gcp_clients' = get_clients.global
    /\ _project_id' = get_clients.project_id
    /\ _location' = get_clients.location
    /\ LET reg == registries'[_gcp_clients']
       IN  th' = [th EXCEPT ![t] =
                     [pc |-> IF reg.artifactregistry_client = 0
                             THEN "ar_checked" ELSE "ar_return",
                      reg |-> _gcp_clients',
                      val |-> 0,
                      afterClose |-> reg.closeAllCalls > 0]]
    /\ UNCHANGED <<callers, regLimit, initResult, lifespan, response, last,
                   envVars, authVars>>

ArtifactRegistryConstruct(t) ==
    /\ th[t].pc = "ar_checked"
    /\ \E ok \in BOOLEAN :
          LET r == th[t].reg
              res == _init_client(registries[r], "artifactregistry", 0, ok)
          IN  /\ ok \/ registries[r].ctorFails["artifactregistry"] < MaxFails
              /\ registries' = [registries EXCEPT ![r] = res.registry]
              /\ IF res.raised
                 THEN Finish(t, "RuntimeError", "artifactregistry")
                 ELSE /\ th' = [th EXCEPT ![t].pc = "ar_constructed",
                                          ![t].val = res.ret]
                      /\ UNCHANGED last
    /\ UNCHANGED <<_gcp_clients, _project_id, _location, callers, regLimit,
                   initResult, lifespan, response, envVars, authVars>>

ArtifactRegistryStore(t) ==
    /\ th[t].pc = "ar_constructed"
    /\ LET r == th[t].reg
       IN  registries' = [registries EXCEPT
                             ![r].artifactregistry_client = th[t].val]
    /\ th' = [th EXCEPT ![t].pc = "ar_return", ![t].val = 0]
    /\ UNCHANGED <<_gcp_clients, _project_id, _location, callers, regLimit,
                   initResult, lifespan, response, last, envVars, authVars>>

ArtifactRegistryReturn(t) ==
    /\ th[t].pc = "ar_return"
    /\ LET r == th[t].reg
           h == registries[r].artifactregistry_client
       IN  registries' = [registries EXCEPT
                             ![r].returned["artifactregistry"] = @ \cup {h}]
    /\ Finish(t, "ok", "artifactregistry")
    /\ UNCHANGED <<_gcp_clients, _project_id, _location, callers, regLimit,
                   initResult, lifespan, response, envVars, authVars>>

(* a close_all that closes the clients the accessor fields hold and keeps  *)
(* the fields                                                              *)
close_all_fields(reg) ==
    [reg EXCEPT !.objs = [k \in Kinds |->
                            [i \in DOMAIN reg.objs[k] |->
                                IF \/ k = "storage" /\ i = reg.storage_client
                                   \/ /\ k = "artifactregistry"
                                      /\ i = reg.artifactregistry_client
                                THEN reg.objs[k][i] + 1
                                ELSE reg.objs[k][i]]],
                !.clients = {},
                !.closeAllCalls = @ + 1]

(***************************************************************************)
(* close_all: closes the clients that the _clients dictionary holds and    *)
(* clears the dictionary.  A client is named by its kind and its index     *)
(* among the clients of that kind constructed on the registry.             *)
(***************************************************************************)
(* a close_all that also forgets the project of the registry *)
close_all_forget(reg) ==
    [reg EXCEPT !.objs = [k \in Kinds |->
                            [i \in DOMAIN reg.objs[k] |->
                                IF <<k, i>> \in reg.clients
                                THEN reg.objs[k][i] + 1
                                ELSE reg.objs[k][i]]],
                !.clients = {},
                !.project_id = "",
                !.closeAllCalls = @ + 1]

close_all(reg) ==
    [reg EXCEPT !.objs = [k \in Kinds |->
                            [i \in DOMAIN reg.objs[k] |->
                                IF <<k, i>> \in reg.clients
                                THEN reg.objs[k][i] + 1
                                ELSE reg.objs[k][i]]],
                !.clients = {},
                !.closeAllCalls = @ + 1]

CloseAll ==
    /\ \E r \in DOMAIN registries :
          /\ registries[r].closeAllCalls < MaxCloseAll
          /\ registries' = [registries EXCEPT ![r] = close_all(registries[r])]
    /\ UNCHANGED <<_gcp_clients, _project_id, _location, callers, regLimit,
                   initResult, lifespan, response, th, last, envVars,
                   authVars>>

(***************************************************************************)
(* gcp_lifespan of main.py up to its yield: initialize_clients(None), its  *)
(* return value dropped, then get_clients(), get_project_id() and          *)
(* get_location(), and the context is yielded.  None of these raises, so   *)
(* the "except" clause of the lifespan is never entered.  When             *)
(* initialize_clients() has failed, get_clients() tries once more in the   *)
(* same environment, fails the same way and returns the global as it was.  *)
(***************************************************************************)
LifespanEnter ==
    /\ lifespan.pc = "down"
    /\ LET r == initialize_clients(NoCred)
       IN  /\ IF r.ok
              THEN /\ registries' = Append(registries, r.registry)
                   /\ _gcp_clients' = Len(registries) + 1
                   /\ _project_id' = r.registry.project_id
                   /\ _location' = r.registry.location
                   /\ initResult' = "True"
              ELSE /\ UNCHANGED <<registries, _gcp_clients, _project_id,
                                  _location>>
                   /\ initResult' = "False"
           /\ lifespan' = [pc |-> "serving", clients |-> _gcp_clients',
                           project_id |-> _project_id',
                           location |-> _location']
    /\ UNCHANGED <<callers, regLimit, response, th, last, envVars, authVars>>

(* the server shuts down: the "finally" clause of gcp_lifespan, which logs *)
LifespanExit ==
    /\ lifespan.pc = "serving"
    /\ lifespan' = [lifespan EXCEPT !.pc = "exited"]
    /\ UNCHANGED <<registries, _gcp_clients, _project_id, _location, callers,
                   regLimit, initResult, response, th, last, envVars,
                   authVars>>

(***************************************************************************)
(* The service handlers.  Each one is                                      *)
(*     try: client = client_instances.get_clients().<kind>; ...SDK calls   *)
(*     except Exception as e: return json.dumps(<error payload>)           *)
(* MissingKinds are the kinds handlers ask for that GCPClients has no      *)
(* accessor for.                                                           *)
(***************************************************************************)
MissingKinds ==
    {"compute", "run", "bigquery", "logging", "monitoring", "cloudbuild"}
AllKinds == Kinds \cup MissingKinds
Forms == {"resource", "tool"}

(* an attribute lookup that hands out a client for any name *)
accessor_anykind(reg, k, ok) ==
    [raised |-> FALSE, exc |-> "none", ret |-> 1, registry |-> reg]

(* reading the attribute k of a GCPClients object, the constructor         *)
(* succeeding or raising as ok says                                        *)
accessor(reg, k, ok) ==
    IF k \notin Kinds
    THEN [raised |-> TRUE, exc |-> "AttributeError", ret |-> 0,
          registry |-> reg]
    ELSE LET res == _init_client(reg, k,
                                 IF k = "storage" THEN reg.storage_client
                                 ELSE reg.artifactregistry_client, ok)
             stored == IF k = "storage"
                       THEN [res.registry EXCEPT !.storage_client = res.ret]
                       ELSE [res.registry EXCEPT
                                !.artifactregistry_client = res.ret]
         IN  IF res.raised
             THEN [raised |-> TRUE, exc |-> "RuntimeError", ret |-> 0,
                   registry |-> res.registry]
             ELSE [raised |-> FALSE, exc |-> "none", ret |-> res.ret,
                   registry |-> [stored EXCEPT
                                    !.returned[k] = @ \cup {res.ret}]]

(* the payload an "except Exception" clause returns: {"error": ...} in     *)
(* resources and in the artifact registry tools, {"status": "error",       *)
(* "message": ...} in the other tools                                      *)
ErrorShape(k, form) ==
    IF form = "resource" \/ k = "artifactregistry"
    THEN "error_field" ELSE "status_error"

(* a handler whose "except" clause raises again *)
handler_reraise(k, form, cause, called) ==
    [kind |-> k, form |-> form, raised |-> cause # "none",
     shape |-> IF cause = "none" THEN "result" ELSE "none",
     cause |-> cause, apiCalled |-> called]

(* what a handler of the given form for kind k returns, cause being the    *)
(* exception raised inside its try block ("none" when there was none)      *)
handler(k, form, cause, called) ==
    [kind |-> k, form |-> form, raised |-> FALSE,
     shape |-> IF cause = "none" THEN "result" ELSE ErrorShape(k, form),
     cause |-> cause, apiCalled |-> called]

HandleRequest ==
    /\ lifespan.pc = "serving"
    /\ \E k \in AllKinds, form \in Forms, ctorOK \in BOOLEAN,
          sdkOK \in BOOLEAN :
          LET g == get_clients
              a == IF g.global = 0
                   THEN [raised |-> TRUE, exc |-> "AttributeError"]
                   ELSE accessor(g.registries[g.global], k, ctorOK)
              cause == IF a.raised THEN a.exc
                       ELSE IF sdkOK THEN "none" ELSE "SDKError"
          IN  /\ \/ ctorOK
                 \/ /\ g.global # 0
                    /\ k \in Kinds
                    /\ g.registries[g.global].ctorFails[k] < MaxFails
              /\ registries' = IF g.global = 0 THEN g.registries
                               ELSE [g.registries EXCEPT
                                        ![g.global] = a.registry]
              /\ _gcp_clients' = g.global
              /\ _project_id' = g.project_id
              /\ _location' = g.location
              /\ response' = handler(k, form, cause, ~a.raised)
    /\ UNCHANGED <<callers, regLimit, initResult, lifespan, th, last,
                   envVars, authVars>>

RegistryEnv ==
    /\ GOOGLE_APPLICATION_CREDENTIALS = "unset"
    /\ GCP_SERVICE_ACCOUNT_JSON \in {"unset", "valid"}
    /\ GCP_SERVICE_ACCOUNT_KEY_PATH = "unset"
    /\ GCP_PROJECT_ID = ""
    /\ adc \in {NoADC,
                [found |-> TRUE, project |-> "p_adc",
                 cred |-> [src |-> "default", tok |-> "none",
                           hasValid |-> TRUE, hasExpiry |-> TRUE,
                           project |-> "absent"]]}
    /\ refreshOK = TRUE
    /\ auditOK = TRUE

(* callers run concurrently on one registry *)
Init ==
    /\ RegistryEnv
    /\ GCP_SERVICE_ACCOUNT_JSON = "unset"
    /\ AuthIdle
    /\ RegistryIdle
    /\ callers = Threads
    /\ regLimit = 1

(* one caller only: requests are made in sequence *)
SeqInit ==
    /\ RegistryEnv
    /\ AuthIdle
    /\ RegistryIdle
    /\ callers = {1}
    /\ regLimit = 1

Next ==
    \/ InitializeClients
    \/ CloseAll
    \/ \E t \in callers : GetClientsNone(t)
    \/ \E t \in callers : StorageCheck(t)
    \/ \E t \in callers : StorageInitClient(t)
    \/ \E t \in callers : StorageStore(t)
    \/ \E t \in callers : ArtifactRegistryCheck(t)
    \/ \E t \in callers : ArtifactRegistryConstruct(t)
    \/ \E t \in callers : ArtifactRegistryStore(t)
    \/ \E t \in callers : ArtifactRegistryReturn(t)

Spec == Init /\ [][Next]_vars

SeqSpec == SeqInit /\ [][Next]_vars

AuthEnv ==
    /\ GOOGLE_APPLICATION_CREDENTIALS \in FileStates
    /\ GCP_SERVICE_ACCOUNT_JSON \in JsonStates
    /\ GCP_PROJECT_ID \in {"", "p_env"}
    /\ adc \in ADCOutcomes
    /\ refreshOK \in BOOLEAN
    /\ GCP_SERVICE_ACCOUNT_KEY_PATH = "unset"

(* the logger works *)
AuthInit ==
    /\ AuthEnv
    /\ auditOK = TRUE
    /\ AuthIdle
    /\ RegistryIdle
    /\ callers = {}
    /\ regLimit = 0

AuthNext == GetCredentials

AuthSpec == AuthInit /\ [][AuthNext]_vars

(* the logger may raise *)
AuditInit ==
    /\ AuthEnv
    /\ auditOK \in BOOLEAN
    /\ AuthIdle
    /\ RegistryIdle
    /\ callers = {}
    /\ regLimit = 0

AuditSpec == AuditInit /\ [][AuthNext]_vars

(* construction of the registry in every environment context.py reads *)
RegInit ==
    /\ GOOGLE_APPLICATION_CREDENTIALS = "unset"
    /\ GCP_SERVICE_ACCOUNT_JSON \in JsonStates
    /\ GCP_SERVICE_ACCOUNT_KEY_PATH \in KeyPathStates
    /\ GCP_PROJECT_ID \in {"", "p_env"}
    /\ adc \in ADCOutcomes
    /\ refreshOK = TRUE
    /\ auditOK = TRUE
    /\ AuthIdle
    /\ RegistryIdle
    /\ callers = {}
    /\ regLimit = 1

RegInitNext == InitializeClients

RegInitSpec == RegInit /\ [][RegInitNext]_vars

(* one caller, and the host may initialize the registry a second time *)
ReinitInit ==
    /\ RegistryEnv
    /\ AuthIdle
    /\ RegistryIdle
    /\ callers = {1}
    /\ regLimit = 2

ReinitNext ==
    \/ InitializeClients
    \/ \E t \in callers : GetClientsNone(t)
    \/ \E t \in callers : StorageCheck(t)
    \/ \E t \in callers : StorageInitClient(t)
    \/ \E t \in callers : StorageStore(t)
    \/ \E t \in callers : ArtifactRegistryCheck(t)
    \/ \E t \in callers : ArtifactRegistryConstruct(t)
    \/ \E t \in callers : ArtifactRegistryStore(t)
    \/ \E t \in callers : ArtifactRegistryReturn(t)

ReinitSpec == ReinitInit /\ [][ReinitNext]_vars

(* one caller of the registry, and credential resolutions in between *)
MixedInit ==
    /\ GOOGLE_APPLICATION_CREDENTIALS = "unset"
    /\ GCP_SERVICE_ACCOUNT_JSON = "unset"
    /\ GCP_SERVICE_ACCOUNT_KEY_PATH = "unset"
    /\ GCP_PROJECT_ID \in {"", "p_env"}
    /\ adc \in {NoADC,
                [found |-> TRUE, project |-> "p_adc",
                 cred |-> [src |-> "default", tok |-> "none",
                           hasValid |-> TRUE, hasExpiry |-> TRUE,
                           project |-> "absent"]]}
    /\ refreshOK = TRUE
    /\ auditOK = TRUE
    /\ AuthIdle
    /\ RegistryIdle
    /\ callers = {1}
    /\ regLimit = 1

MixedNext ==
    \/ Next
    \/ GetCredentials

MixedSpec == MixedInit /\ [][MixedNext]_vars

(* the server: the lifespan is entered, requests are handled, the server  *)
(* shuts down                                                              *)
ServerInit ==
    /\ GOOGLE_APPLICATION_CREDENTIALS = "unset"
    /\ GCP_SERVICE_ACCOUNT_JSON \in {"unset", "valid", "valid_noproj"}
    /\ GCP_SERVICE_ACCOUNT_KEY_PATH = "unset"
    /\ GCP_PROJECT_ID \in {"", "p_env"}
    /\ adc \in {NoADC,
                [found |-> TRUE, project |-> "p_adc",
                 cred |-> [src |-> "default", tok |-> "none",
                           hasValid |-> TRUE, hasExpiry |-> TRUE,
                           project |-> "absent"]]}
    /\ refreshOK = TRUE
    /\ auditOK = TRUE
    /\ AuthIdle
    /\ RegistryIdle
    /\ callers = {}
    /\ regLimit = 1

ServerNext ==
    \/ LifespanEnter
    \/ HandleRequest
    \/ LifespanExit

ServerSpec == ServerInit /\ [][ServerNext]_vars

(* the credentials validate_credentials is tried on *)
ValInputs ==
    [src : {"file", "default"}, tok : {"none", "expired", "fresh"},
     hasValid : BOOLEAN, hasExpiry : BOOLEAN, project : {"absent"}]

ValInit ==
    /\ GOOGLE_APPLICATION_CREDENTIALS = "unset"
    /\ GCP_SERVICE_ACCOUNT_JSON = "unset"
    /\ GCP_SERVICE_ACCOUNT_KEY_PATH = "unset"
    /\ GCP_PROJECT_ID = ""
    /\ adc = NoADC
    /\ refreshOK \in BOOLEAN
    /\ auditOK = TRUE
    /\ ResolverIdle
    /\ valCred \in ValInputs
    /\ valResult = NoValidation
    /\ valCalls = 0
    /\ RegistryIdle
    /\ callers = {}
    /\ regLimit = 0

ValNext == ValidateCredentials

ValSpec == ValInit /\ [][ValNext]_vars

(***************************************************************************)
(* Properties of the client registry.                                      *)
(***************************************************************************)
Regs == DOMAIN registries

(* C1 as claimed: in sequential use the accessor of a kind returns one and *)
(* the same client, and the constructor of the kind is invoked at most     *)
(* once per registry.                                                      *)
C1_Original ==
    \A r \in Regs : \A k \in Kinds :
        /\ Cardinality(registries[r].returned[k]) <= 1
        /\ CtorCalls(registries[r], k) <= 1

(* C1 amended: in sequential use the accessor of a kind returns one and    *)
(* the same client on every request, and the constructor of the kind       *)
(* completes successfully at most once per registry.                       *)
C1_Memoization ==
    \A r \in Regs : \A k \in Kinds :
        /\ Cardinality(registries[r].returned[k]) <= 1
        /\ Len(registries[r].objs[k]) <= 1

(* a second storage request is about to return the client that an earlier  *)
(* request has returned                                                    *)
C1_Witness ==
    /\ th[1].pc = "storage_inited"
    /\ th[1].val = 1
    /\ registries[th[1].reg].returned["storage"] = {1}

(* C2 as claimed: when no construction fails, concurrent callers of the    *)
(* accessor of a kind cause exactly one constructor invocation for it.     *)
C2_Original ==
    \A r \in Regs : \A k \in Kinds :
        /\ CtorCalls(registries[r], k) > 0
        /\ registries[r].ctorFails[k] = 0
        => CtorCalls(registries[r], k) = 1

(* the clients a registry still holds: the dictionary and the fields *)
CacheSize(reg) ==
    Cardinality(reg.clients) + (IF reg.storage_client # 0 THEN 1 ELSE 0)
        + (IF reg.artifactregistry_client # 0 THEN 1 ELSE 0)

(* C3 as claimed: when close_all() returns, every client constructed on    *)
(* the registry has been closed exactly once and the registry holds no     *)
(* client.                                                                 *)
C3_Original ==
    [][\A r \in Regs :
          registries'[r].closeAllCalls > registries[r].closeAllCalls =>
              /\ \A k \in Kinds : \A i \in DOMAIN registries[r].objs[k] :
                    registries'[r].objs[k][i] = 1
              /\ CacheSize(registries'[r]) = 0]_vars

(* C4 as claimed: a request made after close_all() fails with              *)
(* ClientInitializationError.                                              *)
C4_Original ==
    last.afterClose => last.status = "ClientInitializationError"

(* the registry without the count of close_all calls *)
Observable(reg) == [reg EXCEPT !.closeAllCalls = 0]

(* C5: close_all() always completes, and calling it again right after a    *)
(* call changes nothing in the registry and closes no client again.        *)
C5_CloseAllIdempotent ==
    \A r \in Regs :
        Observable(close_all(close_all(registries[r])))
            = Observable(close_all(registries[r]))

(* close_all has been called twice on a registry that holds clients of     *)
(* both kinds                                                              *)
C5_Witness ==
    \E r \in Regs :
        /\ registries[r].closeAllCalls = 2
        /\ registries[r].storage_client # 0
        /\ registries[r].artifactregistry_client # 0

(***************************************************************************)
(* Properties of the credential resolver (checked under AuthSpec).         *)
(***************************************************************************)
Resolved == authResult.status # "none"

(* the file source exists: the path is set and the file is there *)
FilePresent == GOOGLE_APPLICATION_CREDENTIALS \in {"malformed", "valid"}
(* the inline source exists: it is set and is JSON (a blob that is not     *)
(* JSON counts as absent)                                                  *)
JsonPresent == GCP_SERVICE_ACCOUNT_JSON \notin {"unset", "badsyntax"}

WinningSource ==
    IF FilePresent THEN "file" ELSE IF JsonPresent THEN "json" ELSE "default"

(* C6: the credential returned comes from the highest-priority source that *)
(* exists (file, then inline JSON, then ambient), and the loader of no     *)
(* lower-priority source is called.                                        *)
C6_PriorityOrder ==
    Resolved =>
        /\ authResult.status = "ok" => authResult.cred.src = WinningSource
        /\ FilePresent => authResult.consulted = {"file"}
        /\ ~FilePresent /\ JsonPresent => authResult.consulted = {"json"}
        /\ ~FilePresent /\ ~JsonPresent =>
               /\ "file" \notin authResult.consulted
               /\ "default" \in authResult.consulted

C6_Witness ==
    /\ authResult.status = "ok"
    /\ authResult.cred.src = "file"
    /\ GCP_SERVICE_ACCOUNT_JSON = "valid"
    /\ adc.found

AmbientUsable == adc.found /\ (IsValid(adc.cred) \/ refreshOK)

C9_NoSourceFails ==
    Resolved /\ ~FilePresent /\ GCP_SERVICE_ACCOUNT_JSON = "unset"
             /\ ~adc.found =>
        /\ authResult.status = "AuthenticationError"
        /\ authResult.cred = NoCred

C9_Witness ==
    /\ Resolved
    /\ GOOGLE_APPLICATION_CREDENTIALS = "unset"
    /\ GCP_SERVICE_ACCOUNT_JSON = "unset"
    /\ ~adc.found

(* the material of the source that wins is valid *)
WinningSourceValid ==
    IF FilePresent THEN GOOGLE_APPLICATION_CREDENTIALS = "valid"
    ELSE IF GCP_SERVICE_ACCOUNT_JSON # "unset"
    THEN GCP_SERVICE_ACCOUNT_JSON \in {"valid", "valid_noproj"}
    ELSE adc.found

(* C10: a credential that resolution returns is valid and not expired      *)
(* (as far as it has those attributes), and resolution succeeds whenever   *)
(* the winning source is valid and the token refresh works.                *)
C10_ReturnedCredentialValid ==
    Resolved =>
        /\ authResult.status = "ok" =>
               /\ authResult.cred # NoCred
               /\ authResult.cred.hasValid => IsValid(authResult.cred)
               /\ authResult.cred.hasExpiry => ~IsExpired(authResult.cred)
        /\ WinningSourceValid /\ refreshOK => authResult.status = "ok"

C10_Witness ==
    /\ authResult.status = "ok"
    /\ authResult.refreshes = 1
    /\ IsValid(authResult.cred)

ResourceOf(src) ==
    IF src = "default" THEN "application_default" ELSE "service_account"

MethodOf(src) ==
    IF src = "json" THEN "environment_json" ELSE src

(* C13 as claimed: for every source whose loading was attempted, an audit  *)
(* entry was emitted with action "credential_load", the resource class of  *)
(* that source and the resolution method, whether or not the load          *)
(* succeeded.                                                              *)
C13_Original ==
    Resolved =>
        \A src \in authResult.consulted :
            \E i \in DOMAIN auditLog :
                /\ auditLog[i].action = "credential_load"
                /\ auditLog[i].resource = ResourceOf(src)
                /\ "method" \in DOMAIN auditLog[i]
                /\ auditLog[i].method = MethodOf(src)

(* C14 as claimed: when emitting the audit entry fails, the resolution     *)
(* returns the credential, or the error, it returns when the emission      *)
(* succeeds.                                                               *)
C14_Original ==
    Resolved =>
        /\ authResult.status = get_credentials(TRUE).status
        /\ authResult.cred = get_credentials(TRUE).cred

(* C15: a resolution changes GCP_PROJECT_ID only by adopting the project   *)
(* found by ambient discovery when none was configured; a configured       *)
(* project is never overwritten, and a resolution that ends in the file or *)
(* inline-JSON source leaves GCP_PROJECT_ID as it was.                     *)
C15_ProjectAdoption ==
    [][authCalls' = authCalls + 1 =>
          /\ GCP_PROJECT_ID # "" => GCP_PROJECT_ID' = GCP_PROJECT_ID
          /\ GCP_PROJECT_ID' # GCP_PROJECT_ID =>
                /\ "default" \in authResult'.consulted
                /\ adc.found
                /\ adc.project # ""
                /\ GCP_PROJECT_ID = ""
                /\ GCP_PROJECT_ID' = adc.project
          /\ "default" \notin authResult'.consulted =>
                GCP_PROJECT_ID' = GCP_PROJECT_ID]_vars

(* ambient discovery was reached with a configured project in place *)
C15_Witness ==
    /\ Resolved
    /\ "default" \in authResult.consulted
    /\ adc.found
    /\ adc.project = "p_adc"
    /\ GCP_PROJECT_ID = "p_env"

C28_InvalidDefinitionFatal ==
    Resolved =>
        /\ {"json", "default"} \subseteq authResult.consulted =>
               GCP_SERVICE_ACCOUNT_JSON = "badsyntax"
        /\ ~FilePresent /\ GCP_SERVICE_ACCOUNT_JSON = "badsa" =>
               /\ authResult.status = "AuthenticationError"
               /\ authResult.consulted = {"json"}
               /\ authResult.audits = <<>>
               /\ \A i \in DOMAIN auditLog :
                     auditLog[i].resource # "service_account"

(* the inline definition was rejected while ambient discovery would have   *)
(* given a usable credential                                               *)
C28_Witness ==
    /\ Resolved
    /\ ~FilePresent
    /\ GCP_SERVICE_ACCOUNT_JSON = "badsa"
    /\ AmbientUsable
    /\ authResult.status = "AuthenticationError"

(***************************************************************************)
(* Properties of the construction of a registry (checked under             *)
(* RegInitSpec).                                                           *)
(***************************************************************************)
(* C16: with GCP_PROJECT_ID configured, the project of a registry is that  *)
(* value, whatever project the credential carries and whatever ambient     *)
(* discovery reports.                                                      *)
C16_OverrideWins ==
    \A r \in Regs :
        GCP_PROJECT_ID # "" => registries[r].project_id = GCP_PROJECT_ID

C16_Witness ==
    \E r \in Regs :
        /\ GCP_PROJECT_ID = "p_env"
        /\ registries[r].credentials.project = "p_sa"
        /\ adc.found
        /\ adc.project = "p_adc"
        /\ registries[r].project_id = "p_env"

(* the credential carries a project identifier *)
HasProject(c) == c.project \notin {"absent", ""}

(* C17 as claimed: with no GCP_PROJECT_ID configured, the project of a     *)
(* registry is the one its credential carries, and when the credential     *)
(* carries none it is the project found by ambient discovery.              *)
C17_Original ==
    \A r \in Regs :
        GCP_PROJECT_ID = "" =>
            /\ HasProject(registries[r].credentials) =>
                   registries[r].project_id = registries[r].credentials.project
            /\ ~HasProject(registries[r].credentials) /\ adc.found =>
                   registries[r].project_id = adc.project

(* C18 as claimed: a registry that has been built has a project ID that    *)
(* is neither empty nor None.                                              *)
C18_Original ==
    \A r \in Regs : registries[r].project_id # ""

(* the inline blob, the key file can be loaded *)
InlineLoads == GCP_SERVICE_ACCOUNT_JSON \in {"valid", "valid_noproj"}
KeyFileLoads == GCP_SERVICE_ACCOUNT_KEY_PATH \in {"valid", "valid_noproj"}

(* C29: _get_credentials returns credentials passed to it as they are;     *)
(* with none passed it returns the inline service account if that loads,   *)
(* else the key file's if that loads, else the ambient credential, and it  *)
(* fails only when none of the three gives one; a registry holds the       *)
(* credential so chosen.                                                   *)
C29_RegistryCredentialOrder ==
    /\ _get_credentials(ExplicitCred) = [ok |-> TRUE, cred |-> ExplicitCred]
    /\ InlineLoads =>
           /\ _get_credentials(NoCred).ok
           /\ _get_credentials(NoCred).cred.src = "json"
    /\ ~InlineLoads /\ KeyFileLoads =>
           /\ _get_credentials(NoCred).ok
           /\ _get_credentials(NoCred).cred.src = "keypath"
    /\ ~InlineLoads /\ ~KeyFileLoads /\ adc.found =>
           /\ _get_credentials(NoCred).ok
           /\ _get_credentials(NoCred).cred = adc.cred
    /\ ~_get_credentials(NoCred).ok <=>
           ~InlineLoads /\ ~KeyFileLoads /\ ~adc.found
    /\ \A r \in Regs :
           registries[r].credentials
               \in {ExplicitCred, _get_credentials(NoCred).cred}

(* a registry was built on the key file after the inline blob had failed   *)
(* to load                                                                 *)
C29_Witness ==
    \E r \in Regs :
        /\ registries[r].credentials.src = "keypath"
        /\ GCP_SERVICE_ACCOUNT_JSON \in {"badsyntax", "badsa"}
        /\ adc.found

(***************************************************************************)
(* Properties of validate_credentials (checked under ValSpec).             *)
(***************************************************************************)
Validated == valResult.status # "none"

(* C11 as claimed: a validation in which a refresh fails raises            *)
(* AuthenticationError, whichever of the two tests led to the refresh.     *)
C11_Original ==
    Validated /\ valResult.status # "ok" =>
        valResult.status = "AuthenticationError"

(* C12: validating a credential that is valid refreshes nothing and        *)
(* returns it unchanged, and a validation that follows a successful one    *)
(* refreshes nothing and returns the same credential.                      *)
C12_ValidationIdempotent ==
    [][valCalls' = valCalls + 1 =>
          /\ IsValid(valCred) =>
                /\ valResult'.status = "ok"
                /\ valResult'.refreshes = 0
                /\ valResult'.cred = valCred
                /\ valCred' = valCred
          /\ valResult.status = "ok" =>
                /\ valResult'.status = "ok"
                /\ valResult'.refreshes = 0
                /\ valResult'.cred = valResult.cred]_vars

(* a second validation has followed one that had to refresh *)
C12_Witness ==
    /\ valCalls = 2
    /\ valResult.status = "ok"
    /\ valResult.refreshes = 0
    /\ valResult.input.src = "file"
    /\ IsValid(valResult.input)
    /\ refreshOK

(***************************************************************************)
(* Properties of a failed construction (checked under SeqSpec).            *)
(***************************************************************************)
(* the field in which the accessor of kind k caches its client *)
Cached(reg, k) ==
    IF k = "storage" THEN reg.storage_client ELSE reg.artifactregistry_client

(* the positions at which the accessor of kind k invokes the constructor *)
ConstructPc(k) == IF k = "storage" THEN "storage_checked" ELSE "ar_checked"

(* this step is a constructor invocation for kind k that raises *)
FailStep(r, k) ==
    registries'[r].ctorFails[k] = registries[r].ctorFails[k] + 1

(* this step completes a request *)
RequestEnds ==
    \E t \in callers : th[t].pc # "idle" /\ th'[t].pc = "idle"

C20_CacheStoresOnlySuccesses ==
    [][\A r \in Regs : \A k \in Kinds :
          /\ FailStep(r, k) => Cached(registries'[r], k) = 0
          /\ CtorCalls(registries'[r], k) # CtorCalls(registries[r], k) =>
                /\ CtorCalls(registries'[r], k) = CtorCalls(registries[r], k) + 1
                /\ \E t \in callers :
                      th[t].pc = ConstructPc(k) /\ th[t].reg = r
          /\ \A t \in callers :
                /\ th[t].pc = ConstructPc(k)
                /\ th[t].reg = r
                /\ Cached(registries[r], k) = 0
                /\ th'[t].pc # th[t].pc
                => CtorCalls(registries'[r], k) = CtorCalls(registries[r], k) + 1
          /\ RequestEnds /\ last'.status = "ok" /\ last'.kind = k
                /\ r = _gcp_clients =>
                /\ Cached(registries'[r], k) # 0
                /\ Cached(registries'[r], k) \in registries'[r].returned[k]
                /\ Cached(registries[r], k) # 0 =>
                       Cached(registries'[r], k) = Cached(registries[r], k)]_vars

(* the construction of storage failed once, the next storage request       *)
(* constructed a client, and a later request has returned that client      *)
C20_Witness ==
    \E r \in Regs :
        /\ registries[r].ctorFails["storage"] = 1
        /\ registries[r].storage_client = 1
        /\ registries[r].returned["storage"] = {1}
        /\ th[1].pc = "storage_inited"
        /\ th[1].val = 1

(* the positions of a request for kind k *)
RequestPcs(k) ==
    IF k = "storage" THEN {"storage_checked", "storage_inited"}
    ELSE {"ar_checked", "ar_constructed", "ar_return"}

(* kind k has been requested on registry r: a request for it is under way, *)
(* has returned a client, or has raised                                    *)
Requested(r, k) ==
    \/ registries[r].returned[k] # {}
    \/ registries[r].ctorFails[k] > 0
    \/ \E t \in callers : th[t].reg = r /\ th[t].pc \in RequestPcs(k)

(* C23: a registry holds a constructed client only for kinds that have     *)
(* been requested on it; a registry that has just been created holds none. *)
C23_LazyConstruction ==
    \A r \in Regs : \A k \in Kinds :
        Len(registries[r].objs[k]) > 0 => Requested(r, k)

(* storage has been requested and constructed, artifactregistry neither *)
C23_Witness ==
    \E r \in Regs :
        /\ Len(registries[r].objs["storage"]) = 1
        /\ registries[r].returned["storage"] = {1}
        /\ ~Requested(r, "artifactregistry")
        /\ Len(registries[r].objs["artifactregistry"]) = 0

(* C24: no step - a client request, a close_all() call, a credential       *)
(* resolution - changes the project ID a registry holds (checked under     *)
(* MixedSpec).                                                             *)
C24_ProjectImmutable ==
    [][\A r \in Regs :
          registries'[r].project_id = registries[r].project_id]_vars

(* a registry keeps its project after a client request, a close_all() and  *)
(* a credential resolution that changed GCP_PROJECT_ID                     *)
C24_Witness ==
    \E r \in Regs :
        /\ registries[r].project_id = "p_explicit"
        /\ GCP_PROJECT_ID = "p_adc"
        /\ authCalls > 0
        /\ registries[r].closeAllCalls > 0
        /\ registries[r].returned["storage"] # {}

(* C26: initialize_clients returns True after installing a new registry    *)
(* and False after a failure that leaves the three module globals and      *)
(* every registry as they were; and whenever the global registry is not    *)
(* None, the global project ID and location are those of that registry     *)
(* (checked under ReinitSpec).                                             *)
C26_InitializeClientsFrame ==
    /\ [](/\ initResult \in {"none", "True", "False"}
          /\ _gcp_clients # 0 =>
                /\ _project_id = registries[_gcp_clients].project_id
                /\ _location = registries[_gcp_clients].location)
    /\ [][/\ initResult' = "False" /\ initResult # "False" =>
                /\ registries' = registries
                /\ _gcp_clients' = _gcp_clients
                /\ _project_id' = _project_id
                /\ _location' = _location
          /\ initResult' = "True" /\ initResult # "True" =>
                /\ Len(registries') = Len(registries) + 1
                /\ _gcp_clients' = Len(registries')]_vars

(* a re-initialization has failed and the registry installed before, with  *)
(* the client it has cached, is still the global one                       *)
C26_Witness ==
    /\ initResult = "False"
    /\ Len(registries) = 1
    /\ _gcp_clients = 1
    /\ _project_id = "p_explicit"
    /\ registries[1].storage_client # 0

(***************************************************************************)
(* Properties of the server (checked under ServerSpec).                    *)
(***************************************************************************)
(* C21 as claimed: the lifespan yields only when a credential was         *)
(* obtained: whenever it has yielded, the context it yielded holds a       *)
(* registry, and that registry holds a credential.                         *)
C21_Original ==
    lifespan.pc = "serving" =>
        /\ lifespan.clients # 0
        /\ registries[lifespan.clients].credentials # NoCred

(* C22 as claimed: when the lifespan has exited after initializing the     *)
(* registry, close_all() has been called exactly once on that registry.    *)
C22_Original ==
    lifespan.pc = "exited" /\ lifespan.clients # 0 =>
        registries[lifespan.clients].closeAllCalls = 1

Responded == response.kind # "none"

(* C25 as claimed: a handler never raises, and whenever an error occurred  *)
(* inside it the payload it returns is a JSON object with an "error"       *)
(* field.                                                                  *)
C25_Original ==
    Responded =>
        /\ ~response.raised
        /\ response.cause # "none" => response.shape = "error_field"

(* C25: a handler never raises; whenever an error occurred inside it - the *)
(* registry is None, the construction of the client failed, the kind has   *)
(* no accessor, the SDK call failed - it returns an error payload, which   *)
(* is {"error": ...} or {"status": "error", "message": ...}.               *)
C25_HandlersReturnErrors ==
    Responded =>
        /\ ~response.raised
        /\ response.cause # "none" =>
               response.shape \in {"error_field", "status_error"}
        /\ response.cause = "none" => response.shape = "result"

(* a tool was called while the registry could not be initialized *)
C25_Witness ==
    /\ response.cause = "AttributeError"
    /\ response.kind = "storage"
    /\ response.form = "tool"
    /\ _gcp_clients = 0
    /\ ~response.raised

=============================================================================
